---- MODULE Spec2Model ----
(***************************************************************************)
(* CurlMan: the curl command analyzer.                                     *)
(*                                                                         *)
(*   parseCurlCommand, analyzeRequest, analyzeResponse                     *)
(*       src/src/services/requestAnalyzer.js                               *)
(*   CurlAnalyzer (the React component and its handleAnalyze callback)     *)
(*       src/unnamed/part_001                                              *)
(*                                                                         *)
(* A JavaScript string is a sequence of one-character strings, so that     *)
(* trimming, tokenizing, quote stripping, splitting, case conversion and   *)
(* the URL regular expression are computed character by character.        *)
(* Error messages, which the code only builds and displays, are strings.   *)
(***************************************************************************)
EXTENDS Integers, Sequences, FiniteSets, TLC

VARIABLES curlCommand, loading, error, analysisData, pending

vars == <<curlCommand, loading, error, analysisData, pending>>

(***************************************************************************)
(* Characters and strings                                                  *)
(***************************************************************************)

\* The characters \s matches among those the inputs are drawn from.
Whitespace == {" ", "\n", "\t"}

\* The character class ["'].
Quotes == {"\"", "'"}

LowerLetters == <<"a","b","c","d","e","f","g","h","i","j","k","l","m",
                  "n","o","p","q","r","s","t","u","v","w","x","y","z">>

UpperLetters == <<"A","B","C","D","E","F","G","H","I","J","K","L","M",
                  "N","O","P","Q","R","S","T","U","V","W","X","Y","Z">>

Min(S) == CHOOSE x \in S : \A y \in S : x <= y

Max(S) == CHOOSE x \in S : \A y \in S : y <= x

\* The string of a character sequence (for messages).
RECURSIVE ToStr(_)
ToStr(s) == IF s = <<>> THEN "" ELSE Head(s) \o ToStr(Tail(s))

\* String.prototype.toUpperCase, letter by letter.
ToUpperCase(s) ==
  [i \in 1..Len(s) |->
     IF \E k \in 1..26 : LowerLetters[k] = s[i]
     THEN UpperLetters[CHOOSE k \in 1..26 : LowerLetters[k] = s[i]]
     ELSE s[i]]

\* String.prototype.toLowerCase, letter by letter.
ToLowerCase(s) ==
  [i \in 1..Len(s) |->
     IF \E k \in 1..26 : UpperLetters[k] = s[i]
     THEN LowerLetters[CHOOSE k \in 1..26 : UpperLetters[k] = s[i]]
     ELSE s[i]]

\* String.prototype.startsWith.
StartsWith(s, prefix) ==
  /\ Len(s) >= Len(prefix)
  /\ \A i \in 1..Len(prefix) : s[i] = prefix[i]

\* String.prototype.trim.
Trim(s) ==
  LET keep == {i \in 1..Len(s) : s[i] \notin Whitespace}
  IN  IF keep = {} THEN <<>> ELSE SubSeq(s, Min(keep), Max(keep))

\* s.replace(/\s+/g, ' '): every run of whitespace becomes one space.
RECURSIVE CollapseFrom(_, _)
CollapseFrom(s, i) ==
  IF i > Len(s) THEN <<>>
  ELSE IF s[i] \in Whitespace
       THEN IF i > 1 /\ s[i - 1] \in Whitespace
            THEN CollapseFrom(s, i + 1)
            ELSE <<" ">> \o CollapseFrom(s, i + 1)
       ELSE <<s[i]>> \o CollapseFrom(s, i + 1)

CollapseWhitespace(s) == CollapseFrom(s, 1)

\* s.replace(/["']/g, ''): every quote character is removed.
StripQuotes(s) == SelectSeq(s, LAMBDA c : c \notin Quotes)

\* s.replace(c, ''): the first occurrence of the character c is removed.
ReplaceFirst(s, c) ==
  LET at == {j \in 1..Len(s) : s[j] = c}
  IN  IF at = {} THEN s
      ELSE SubSeq(s, 1, Min(at) - 1) \o SubSeq(s, Min(at) + 1, Len(s))

\* String.prototype.split with a one-character separator.
RECURSIVE Split(_, _)
Split(s, sep) ==
  LET at == {j \in 1..Len(s) : s[j] = sep}
  IN  IF at = {} THEN <<s>>
      ELSE <<SubSeq(s, 1, Min(at) - 1)>>
             \o Split(SubSeq(s, Min(at) + 1, Len(s)), sep)

\* Array.prototype.join with a one-character separator.
RECURSIVE Join(_, _)
Join(list, sep) ==
  IF list = <<>> THEN <<>>
  ELSE IF Len(list) = 1 THEN list[1]
  ELSE list[1] \o <<sep>> \o Join(Tail(list), sep)

(***************************************************************************)
(* The tokenizer: curlCommand.match(/(?:[^\s"']+|"[^"]*"|'[^']*')+/g)      *)
(***************************************************************************)

\* The place of the quote closing the one at i, or 0 when none follows.
ClosingQuote(s, i) ==
  LET later == {j \in (i + 1)..Len(s) : s[j] = s[i]}
  IN  IF later = {} THEN 0 ELSE Min(later)

\* The place after the longest match of the repeated group that is at q:
\* a run of ordinary characters, or a quoted span with its closing quote.
RECURSIVE MatchEnd(_, _)
MatchEnd(s, q) ==
  IF q > Len(s) THEN q
  ELSE IF s[q] \notin Whitespace \cup Quotes THEN MatchEnd(s, q + 1)
  ELSE IF s[q] \in Quotes /\ ClosingQuote(s, q) # 0
       THEN MatchEnd(s, ClosingQuote(s, q) + 1)
  ELSE q

\* The matches from p on, left to right; a character no match starts at
\* (whitespace, a quote that is never closed) is skipped.
RECURSIVE MatchAll(_, _)
MatchAll(s, p) ==
  IF p > Len(s) THEN <<>>
  ELSE LET q == MatchEnd(s, p)
       IN  IF q > p THEN <<SubSeq(s, p, q - 1)>> \o MatchAll(s, q)
           ELSE MatchAll(s, p + 1)

\* String.prototype.match with a global regular expression returns null, never
\* an empty array, when nothing matches: NoMatch stands for that null.
NoMatch == <<>>

Tokenize(s) == MatchAll(s, 1)

(***************************************************************************)
(* parseCurlCommand                                                        *)
(***************************************************************************)

\* 'curl'
CurlKeyword == <<"c","u","r","l">>

\* '-'
Dash == <<"-">>

\* case '-H': case '--header':
HeaderFlags == {<<"-","H">>, <<"-","-","h","e","a","d","e","r">>}

\* case '-X': case '--request':
MethodFlags == {<<"-","X">>, <<"-","-","r","e","q","u","e","s","t">>}

\* case '-d': case '--data': case '--data-raw':
DataFlags == {<<"-","d">>, <<"-","-","d","a","t","a">>,
              <<"-","-","d","a","t","a","-","r","a","w">>}

\* 'GET', the default method, and 'POST', the method a body promotes it to.
MethodGET == <<"G","E","T">>

MethodPOST == <<"P","O","S","T">>

\* The value null of requestData.data, and a string held there.
Null == <<>>

Some(s) == <<s>>

\* A normal completion with a value, and a thrown Error with its message.
Return(v) == [ok |-> TRUE, value |-> v]

Throw(msg) == [ok |-> FALSE, message |-> msg]

\* obj[key] = value on a plain object.
SetProperty(obj, key, value) ==
  [k \in (DOMAIN obj) \cup {key} |-> IF k = key THEN value ELSE obj[k]]

\* !s for a string s: true exactly of the empty string.
JsNot(s) == s = <<>>

\* b === s for a boolean b and a string s: values of different types are
\* never strictly equal.
BooleanStrictEqualsString(b, s) == FALSE

\* if (!parts || !parts[0].toLowerCase() === 'curl'): the ! binds tighter
\* than ===, so a boolean is compared with 'curl'.
KeywordRejected(parts) ==
  \/ parts = NoMatch
  \/ BooleanStrictEqualsString(JsNot(ToLowerCase(parts[1])), CurlKeyword)

\* The requestData a parse starts from.
InitialRequestData ==
  [method |-> MethodGET, url |-> <<>>, headers |-> <<>>, data |-> Null,
   params |-> <<>>]

\* One pass of the loop leaves requestData as rd and goes on at place next.
Advance(next, rd) == Return([next |-> next, rd |-> rd])

\* A slip for C2: only the first word that is no flag is kept as the URL.
UrlStepKeepingFirst(parts, i, rd) ==
  Advance(i + 1, IF rd.url = <<>> THEN [rd EXCEPT !.url = StripQuotes(parts[i])]
                 ELSE rd)

\* if (!part.startsWith('-')) { requestData.url = part.replace(/["']/g, '');
\* continue; }
UrlStep(parts, i, rd) ==
  Advance(i + 1, [rd EXCEPT !.url = StripQuotes(parts[i])])

\* A slip for C4: a value flag at the end is skipped like an unknown flag.
MissingValueIgnored(parts, i, rd) == Advance(i + 1, rd)

\* if (i + 1 >= parts.length) throw new Error(`Missing value for ${part}`);
MissingValue(parts, i, rd) ==
  Throw("Missing value for " \o ToStr(parts[i]))

\* A slip for C6: the value is the second piece of the split alone.
SetHeaderSecondPiece(headers, token) ==
  LET headerLine == StripQuotes(token)
      pieces     == Split(headerLine, ":")
  IN  SetProperty(headers, Trim(pieces[1]),
                  IF Len(pieces) >= 2 THEN Trim(pieces[2]) ELSE <<>>)

\* const headerLine = parts[++i].replace(/["']/g, '');
\* const [key, ...value] = headerLine.split(':');
\* requestData.headers[key.trim()] = value.join(':').trim();
SetHeader(headers, token) ==
  LET headerLine == StripQuotes(token)
      pieces     == Split(headerLine, ":")
      key        == Head(pieces)
      value      == Tail(pieces)
  IN  SetProperty(headers, Trim(key), Trim(Join(value, ":")))

HeaderStep(parts, i, rd) ==
  Advance(i + 2, [rd EXCEPT !.headers = SetHeader(rd.headers, parts[i + 1])])

\* requestData.method = parts[++i].toUpperCase();
MethodStep(parts, i, rd) ==
  Advance(i + 2, [rd EXCEPT !.method = ToUpperCase(parts[i + 1])])

\* requestData.data = parts[++i].replace(/["']/g, '');
\* if (requestData.method === 'GET') { requestData.method = 'POST'; }
DataStep(parts, i, rd) ==
  Advance(i + 2,
    [rd EXCEPT !.data = Some(StripQuotes(parts[i + 1])),
               !.method = IF rd.method = MethodGET THEN MethodPOST ELSE @])

\* A slip for C7: an unknown flag takes the next word as its value.
UnknownFlagTakesValue(parts, i, rd) == Advance(i + 2, rd)

\* default: break;  (an unknown flag is skipped)
UnknownFlagStep(parts, i, rd) == Advance(i + 1, rd)

\* The body of the for loop for element i.
ParseStep(parts, i, rd) ==
  LET part == parts[i] IN
    IF ~StartsWith(part, Dash) THEN UrlStep(parts, i, rd)
    ELSE IF part \in HeaderFlags \cup MethodFlags \cup DataFlags
    THEN IF i + 1 > Len(parts) THEN MissingValue(parts, i, rd)
         ELSE IF part \in HeaderFlags THEN HeaderStep(parts, i, rd)
         ELSE IF part \in MethodFlags THEN MethodStep(parts, i, rd)
         ELSE DataStep(parts, i, rd)
    ELSE UnknownFlagStep(parts, i, rd)

\* The for loop over parts from its second element (parts[1] in the code,
\* place 2 here), with requestData as it stands before element i.
RECURSIVE ParseLoop(_, _, _)
ParseLoop(parts, i, rd) ==
  IF i > Len(parts) THEN Return(rd)
  ELSE LET step == ParseStep(parts, i, rd)
       IN  IF step.ok THEN ParseLoop(parts, step.value.next, step.value.rd)
           ELSE step

\* A slip for C5: the regular expression without its scheme alternatives.
UrlRegexAnyScheme(url) ==
  /\ Len(url) > 0
  /\ \A j \in 1..Len(url) : url[j] \notin {" ", "\""}

\* const URL_REGEX = /^(http|https):\/\/[^ "]+$/; URL_REGEX.test(url)
UrlRegexTest(url) ==
  \E scheme \in {<<"h","t","t","p",":","/","/">>,
                 <<"h","t","t","p","s",":","/","/">>} :
    /\ StartsWith(url, scheme)
    /\ Len(url) > Len(scheme)
    /\ \A j \in (Len(scheme) + 1)..Len(url) : url[j] \notin {" ", "\""}

\* if (!requestData.url) throw ...; if (!URL_REGEX.test(...)) throw ...
ValidateUrl(rd) ==
  IF JsNot(rd.url) THEN Throw("No URL specified in curl command")
  ELSE IF ~UrlRegexTest(rd.url) THEN Throw("Invalid URL format")
  ELSE Return(rd)

\* The body of the try block, given the matches of the tokenizer.
ParseParts(parts) ==
  IF KeywordRejected(parts) THEN Throw("Command must start with 'curl'")
  ELSE LET scanned == ParseLoop(parts, 2, InitialRequestData)
       IN  IF scanned.ok THEN ValidateUrl(scanned.value) ELSE scanned

\* curlCommand = curlCommand.trim().replace(/\s+/g, ' ');
Normalize(command) == CollapseWhitespace(Trim(command))

\* parseCurlCommand: every error of the try block is thrown again with the
\* prefix of the catch block.
ParseCurlCommand(command) ==
  LET outcome == ParseParts(Tokenize(Normalize(command)))
  IN  IF outcome.ok THEN outcome
      ELSE Throw("Error parsing curl command: " \o outcome.message)

(***************************************************************************)
(* analyzeRequest                                                          *)
(***************************************************************************)

\* The characters that end the authority of an http(s) URL.
AuthorityEnd == {"/", "\\", "?", "#"}

\* new URL(url) for a url that passed URL_REGEX, as far as the analysis reads
\* it: the scheme, then any number of slashes, then the authority up to the
\* first / \ ? or #, the path up to ? or #, the query up to #, the fragment.
\* A url without a scheme or with an empty authority throws TypeError.
\* (Userinfo, ports, escapes and dot segments are not decomposed: the host is
\* the lower-cased authority.)
ParseUrl(url) ==
  LET colons   == {j \in 1..Len(url) : url[j] = ":"}
      colon    == IF colons = {} THEN Len(url) + 1 ELSE Min(colons)
      afterSl  == {j \in (colon + 1)..Len(url) : url[j] \notin {"/", "\\"}}
      hostAt   == IF afterSl = {} THEN Len(url) + 1 ELSE Min(afterSl)
      ends     == {j \in hostAt..Len(url) : url[j] \in AuthorityEnd}
      pathAt   == IF ends = {} THEN Len(url) + 1 ELSE Min(ends)
      marks    == {j \in pathAt..Len(url) : url[j] \in {"?", "#"}}
      queryAt  == IF marks = {} THEN Len(url) + 1 ELSE Min(marks)
      hashes   == {j \in queryAt..Len(url) : url[j] = "#"}
      hashAt   == IF hashes = {} THEN Len(url) + 1 ELSE Min(hashes)
      path     == SubSeq(url, pathAt, queryAt - 1)
      search   == SubSeq(url, queryAt, hashAt - 1)
      hash     == SubSeq(url, hashAt, Len(url))
  IN  IF hostAt = pathAt THEN Throw("Invalid URL")
      ELSE Return([protocol |-> SubSeq(url, 1, colon),
                   host     |-> ToLowerCase(SubSeq(url, hostAt, pathAt - 1)),
                   pathname |-> IF path = <<>> THEN <<"/">> ELSE path,
                   search   |-> IF Len(search) <= 1 THEN <<>> ELSE search,
                   hash     |-> IF Len(hash) <= 1 THEN <<>> ELSE hash])

\* 'Authorization', 'X-API-Key', 'Bearer', 'Basic'
Authorization == <<"A","u","t","h","o","r","i","z","a","t","i","o","n">>

XApiKey == <<"X","-","A","P","I","-","K","e","y">>

Bearer == <<"B","e","a","r","e","r">>

Basic == <<"B","a","s","i","c">>

\* const authHeaders = [[header, prefix, authType], ...]
AuthHeaders ==
  << [header |-> Authorization, prefix |-> Some(Bearer), authType |-> "Bearer Token"],
     [header |-> Authorization, prefix |-> Some(Basic),  authType |-> "Basic Auth"],
     [header |-> XApiKey,       prefix |-> Null,         authType |-> "API Key"] >>

\* A slip for C8: the first rule that matches decides the type.
AuthStepFirstMatch(headers, rule, auth) ==
  IF rule.header \in DOMAIN headers
  THEN IF auth.type = Null
            /\ (rule.prefix = Null
                \/ StartsWith(headers[rule.header], rule.prefix[1]))
       THEN [present |-> TRUE, type |-> Some(rule.authType)]
       ELSE [present |-> TRUE, type |-> auth.type]
  ELSE auth

\* One pass of for (const [header, prefix, authType] of authHeaders).
AuthStep(headers, rule, auth) ==
  IF rule.header \in DOMAIN headers
  THEN IF rule.prefix # Null /\ StartsWith(headers[rule.header], rule.prefix[1])
       THEN [present |-> TRUE, type |-> Some(rule.authType)]
       ELSE IF rule.prefix = Null
       THEN [present |-> TRUE, type |-> Some(rule.authType)]
       ELSE [present |-> TRUE, type |-> auth.type]
  ELSE auth

\* The loop over authHeaders from rule k on.
RECURSIVE AuthLoop(_, _, _)
AuthLoop(headers, k, auth) ==
  IF k > Len(AuthHeaders) THEN auth
  ELSE AuthLoop(headers, k + 1, AuthStep(headers, AuthHeaders[k], auth))

\* authentication: { present: false, type: null }, then the loop.
AnalyzeAuthentication(headers) ==
  AuthLoop(headers, 1, [present |-> FALSE, type |-> Null])

\* The length above which content_preview is cut.
PreviewLimit == 200

\* if (requestData.data): null and the empty string are both falsy.
Truthy(data) == data # Null /\ data[1] # <<>>

\* analysis.body. The inputs are ASCII, so the Blob's size is the length.
AnalyzeBody(data) ==
  IF Truthy(data)
  THEN [present |-> TRUE,
        size_bytes |-> Len(data[1]),
        content_preview |->
          IF Len(data[1]) > PreviewLimit
          THEN SubSeq(data[1], 1, PreviewLimit) \o <<".", ".", ".">>
          ELSE data[1]]
  ELSE [present |-> FALSE]

\* analyzeRequest(requestData): new URL may throw (its TypeError's message is
\* written "Invalid URL" here), the rest does not.
AnalyzeRequest(requestData) ==
  LET url == ParseUrl(requestData.url)
  IN  IF ~url.ok THEN url
      ELSE Return(
        [method |-> requestData.method,
         url_analysis |->
           [scheme       |-> ReplaceFirst(url.value.protocol, ":"),
            host         |-> url.value.host,
            path         |-> url.value.pathname,
            query_params |-> url.value.search,
            fragment     |-> url.value.hash],
         headers |->
           [count   |-> Cardinality(DOMAIN requestData.headers),
            details |-> requestData.headers],
         authentication |-> AnalyzeAuthentication(requestData.headers),
         body |-> AnalyzeBody(requestData.data)])

(***************************************************************************)
(* analyzeResponse                                                         *)
(***************************************************************************)

\* The four names of securityHeaders, as the keys of response.headers.
SecurityHeaderNames ==
  {"strict-transport-security", "x-frame-options",
   "x-content-type-options", "x-xss-protection"}

\* response.headers[name] || fallback
HeaderOr(headers, name, fallback) ==
  IF name \in DOMAIN headers THEN headers[name] ELSE fallback

\* A slip for C11: the comparison turned around.
RedirectCountOfEqual(responseUrl, url) == IF responseUrl = url THEN 1 ELSE 0

\* response.request.res.responseUrl !== requestData.url ? 1 : 0
RedirectCount(responseUrl, url) == IF responseUrl # url THEN 1 ELSE 0

\* The part of analyzeResponse after the await, for a response the transport
\* delivered. validateStatus: () => true, so no status rejects.
\* response.request.res is undefined when the transport's request object has
\* no res (axios in a browser hands back an XMLHttpRequest), and reading
\* .responseUrl of it throws TypeError, which the catch block throws again.
\* (total_time is a clock difference no later step reads, and is left out.)
AnalyzeDelivered(requestData, response) ==
  IF response.request = Null
  THEN Throw("Request failed: Cannot read properties of undefined (reading 'responseUrl')")
  ELSE Return(
    [status_code  |-> response.status,
     headers      |-> response.headers,
     content_type |-> HeaderOr(response.headers, "content-type", ""),
     content      |-> IF response.data.type = "object"
                      THEN response.data.pretty ELSE response.data.text,
     raw          |-> IF response.data.type = "object"
                      THEN response.data.compact ELSE response.data.text,
     metadata |->
       [encoding |-> HeaderOr(response.headers, "content-encoding", "identity"),
        redirect_count |->
          RedirectCount(response.request[1].res.responseUrl, requestData.url),
        final_url |-> response.request[1].res.responseUrl,
        security_analysis |->
          [name \in SecurityHeaderNames |-> name \in DOMAIN response.headers]]])

\* The catch block of analyzeResponse for a rejected axios promise.
AnalyzeFailed(message) == Throw("Request failed: " \o message)

(***************************************************************************)
(* The transport: what axios may settle a dispatched request with          *)
(***************************************************************************)

\* 'https://login.io/', where a first redirect leads, and 'https://sso.io/',
\* where a second one leads from there.
OtherUrl == <<"h","t","t","p","s",":","/","/","l","o","g","i","n",".","i","o","/">>

FarUrl == <<"h","t","t","p","s",":","/","/","s","s","o",".","i","o","/">>

TextBody == [type |-> "string", text |-> "ok"]

JsonBody == [type |-> "object", pretty |-> "{\n  \"a\": 1\n}", compact |-> "{\"a\":1}"]

\* The request object of the Node http adapter, whose res carries responseUrl.
NodeRequest(responseUrl) == Some([res |-> [responseUrl |-> responseUrl]])

\* The URL the transport reports for a request it followed no redirect for:
\* the requested one, or that one written out with the path it was sent with.
SentUrls(url) == {url, url \o <<"/">>}

\* The URLs the transport may report after the given number of redirects.
FinalUrls(url, redirects) ==
  IF redirects = 0 THEN SentUrls(url)
  ELSE IF redirects = 1 THEN {OtherUrl}
  ELSE {FarUrl, url}

\* The most redirects the transport follows in the runs checked.
MaxRedirects == 2

\* The responses drawn for a request: a plain success, a client and a server
\* error, a success delivered by a browser adapter, and successes after some
\* redirects (redirects is the transport's own count; the code never reads it).
Responses(requestData) ==
  { [status |-> 200, headers |-> [h \in {"content-type"} |-> "text/plain"],
     data |-> TextBody, request |-> NodeRequest(requestData.url), redirects |-> 0],
    [status |-> 404, headers |-> <<>>,
     data |-> TextBody, request |-> NodeRequest(requestData.url), redirects |-> 0],
    [status |-> 500, headers |-> [h \in {"x-frame-options"} |-> "DENY"],
     data |-> JsonBody, request |-> NodeRequest(requestData.url), redirects |-> 0],
    [status |-> 200, headers |-> [h \in {"content-type"} |-> "text/plain"],
     data |-> TextBody, request |-> Null, redirects |-> 0] }
  \cup
  UNION { { [status |-> 200, headers |-> [h \in {"content-type"} |-> "text/plain"],
              data |-> TextBody, request |-> NodeRequest(final), redirects |-> n] :
              final \in FinalUrls(requestData.url, n) } :
          n \in 0..MaxRedirects }

\* The messages of the transport's own failures.
TransportFailures == {"Network Error", "getaddrinfo ENOTFOUND a.io"}

(***************************************************************************)
(* The inputs: the words commands are made of                              *)
(***************************************************************************)

\* http://a.io
TokUrlA == <<"h","t","t","p",":","/","/","a",".","i","o">>

\* 'https://b.io/p?q=1'
TokUrlB == <<"'","h","t","t","p","s",":","/","/","b",".","i","o","/","p","?","q","=","1","'">>

\* ftp://a.io
TokFtp == <<"f","t","p",":","/","/","a",".","i","o">>

\* "http://a b"
TokSpaced == <<"\"","h","t","t","p",":","/","/","a"," ","b","\"">>

\* http:///
TokNoHost == <<"h","t","t","p",":","/","/","/">>

\* -v
TokVerbose == <<"-","v">>

\* -H
TokH == <<"-","H">>

\* --header
TokHeader == <<"-","-","h","e","a","d","e","r">>

\* -X
TokX == <<"-","X">>

\* --request
TokRequest == <<"-","-","r","e","q","u","e","s","t">>

\* -d
TokD == <<"-","d">>

\* --data
TokData == <<"-","-","d","a","t","a">>

\* --data-raw
TokDataRaw == <<"-","-","d","a","t","a","-","r","a","w">>

\* 'Authorization: Bearer t'
TokBearer == <<"'","A","u","t","h","o","r","i","z","a","t","i","o","n",":"," ","B","e","a","r","e","r"," ","t","'">>

\* 'Authorization: Basic u:p'
TokBasic == <<"'","A","u","t","h","o","r","i","z","a","t","i","o","n",":"," ","B","a","s","i","c"," ","u",":","p","'">>

\* 'Authorization: Digest t'
TokDigest == <<"'","A","u","t","h","o","r","i","z","a","t","i","o","n",":"," ","D","i","g","e","s","t"," ","t","'">>

\* "X-API-Key: k"
TokApiKey == <<"\"","X","-","A","P","I","-","K","e","y",":"," ","k","\"">>

\* 'X-Custom: a:b'
TokCustom == <<"'","X","-","C","u","s","t","o","m",":"," ","a",":","b","'">>

\* GET
TokGet == <<"G","E","T">>

\* put
TokPut == <<"p","u","t">>

\* 'x=1'
TokBody == <<"'","x","=","1","'">>

\* ''
TokEmpty == <<"'","'">>

\* curl
TokCurl == <<"c","u","r","l">>

\* CURL
TokCurlUpper == <<"C","U","R","L">>

\* wget
TokWget == <<"w","g","e","t">>

\* The arguments a command is made of: a word alone, or a flag with a value.
Arguments ==
  { <<TokUrlA>>, <<TokFtp>>, <<TokSpaced>>, <<TokVerbose>>,
    <<TokH>>, <<TokDataRaw>>,
    <<TokH, TokBearer>>, <<TokH, TokBasic>>, <<TokH, TokDigest>>,
    <<TokH, TokApiKey>>, <<TokHeader, TokCustom>>,
    <<TokX, TokGet>>, <<TokRequest, TokPut>>,
    <<TokD, TokBody>>, <<TokD, TokEmpty>> }

\* The most arguments of a command that starts with curl, and of one that
\* starts with another word.
MaxArgs == 3

MaxOtherArgs == 1

\* The sequences of at most n arguments, each flattened to its words.
RECURSIVE ArgumentLists(_)
ArgumentLists(n) ==
  IF n = 0 THEN {<<>>}
  ELSE LET shorter == ArgumentLists(n - 1)
       IN  shorter \cup {a \o rest : a \in Arguments, rest \in shorter}

\* The text of a command: its words with one space between them.
CommandText(words) == Join(words, " ")

\* The commands the parser is run on.
Commands ==
  {CommandText(<<TokCurl>> \o args) : args \in ArgumentLists(MaxArgs)}
    \cup {CommandText(<<k>> \o args) :
            k \in {TokWget, TokCurlUpper}, args \in ArgumentLists(MaxOtherArgs)}

\* The commands typed into the analyzer: a plain and a full request, a flag
\* without its value, a URL without a host, a command of another tool, a
\* command spread over lines, and the empty text.
SampleCommands ==
  { CommandText(<<TokCurl, TokUrlA>>),
    CommandText(<<TokCurlUpper, TokX, TokPut, TokD, TokBody, TokH, TokApiKey, TokUrlB>>),
    CommandText(<<TokCurl, TokUrlA, TokH>>),
    CommandText(<<TokCurl, TokNoHost>>),
    CommandText(<<TokWget, TokUrlA>>),
    <<" ">> \o TokCurl \o <<" ", "\n", "\t">> \o TokUrlA \o <<"\n">>,
    <<>> }

(***************************************************************************)
(* CurlAnalyzer: the component's state and its callbacks                   *)
(***************************************************************************)

\* useState(''), useState(false), useState(''), useState(null). pending holds
\* the invocations of handleAnalyze that wait at their await, oldest first:
\* none at the start.
Init ==
  /\ curlCommand = <<>>
  /\ loading = FALSE
  /\ error = ""
  /\ analysisData = Null
  /\ pending = <<>>

\* onChange={(e) => setCurlCommand(e.target.value)}
SetCurlCommand(text) ==
  /\ curlCommand' = text
  /\ UNCHANGED <<loading, error, analysisData, pending>>

\* The synchronous part of handleAnalyze, up to the await: what it throws, or
\* the request it dispatches with the analysis it keeps for the result.
Prepare(command) ==
  LET parsedRequest == ParseCurlCommand(command)
  IN  IF ~parsedRequest.ok THEN parsedRequest
      ELSE LET requestInfo == AnalyzeRequest(parsedRequest.value)
           IN  IF ~requestInfo.ok THEN requestInfo
               ELSE Return([parsedRequest |-> parsedRequest.value,
                            requestInfo   |-> requestInfo.value])

\* The body of handleAnalyze up to its await: setLoading(true), setError(''),
\* then the request is dispatched and the invocation waits; or, when parsing
\* or the request analysis throws, catch and finally run at once.
RunToAwait ==
  /\ LET prepared == Prepare(curlCommand)
     IN  IF prepared.ok
         THEN /\ loading' = TRUE
              /\ error' = ""
              /\ pending' = pending \o Some(prepared.value)
         ELSE /\ loading' = FALSE
              /\ error' = prepared.message
              /\ UNCHANGED pending
  /\ UNCHANGED <<curlCommand, analysisData>>

\* A slip for C14: the button is not disabled while loading.
HandleAnalyzeWhileLoading ==
  /\ ~JsNot(curlCommand)
  /\ RunToAwait

\* A click on Analyze, which the button takes only while it is enabled
\* (disabled={loading || !curlCommand}).
HandleAnalyze ==
  /\ ~loading
  /\ ~JsNot(curlCommand)
  /\ RunToAwait

\* pending without the invocation at place k.
Settled(k) == SubSeq(pending, 1, k - 1) \o SubSeq(pending, k + 1, Len(pending))

\* A slip for C12: when the execution fails, the request analysis computed
\* before the await is published beside the error.
ResumePublishingRequest(k, outcome) ==
  /\ IF outcome.ok
     THEN /\ analysisData' = Some([request  |-> pending[k].requestInfo,
                                   response |-> outcome.value])
          /\ UNCHANGED error
     ELSE /\ error' = outcome.message
          /\ analysisData' = Some([request |-> pending[k].requestInfo])
  /\ loading' = FALSE
  /\ pending' = Settled(k)
  /\ UNCHANGED curlCommand

\* handleAnalyze from its await on, for the invocation at place k, with what
\* analyzeResponse settled with.
Resume(k, outcome) ==
  /\ IF outcome.ok
     THEN /\ analysisData' = Some([request  |-> pending[k].requestInfo,
                                   response |-> outcome.value])
          /\ UNCHANGED error
     ELSE /\ error' = outcome.message
          /\ UNCHANGED analysisData
  /\ loading' = FALSE
  /\ pending' = Settled(k)
  /\ UNCHANGED curlCommand

\* The transport delivers a response to a request in flight.
ResponseArrives ==
  \E k \in 1..Len(pending) :
    \E response \in Responses(pending[k].parsedRequest) :
      Resume(k, AnalyzeDelivered(pending[k].parsedRequest, response))

\* The transport fails for a request in flight: the axios promise rejects.
TransportFails ==
  \E k \in 1..Len(pending) :
    \E message \in TransportFailures : Resume(k, AnalyzeFailed(message))

TypeCommand == \E text \in SampleCommands : SetCurlCommand(text)

Next == TypeCommand \/ HandleAnalyze \/ ResponseArrives \/ TransportFails

Spec == Init /\ [][Next]_vars

\* The component when every network call settles: the promise of axios that
\* an invocation awaits is resolved or rejected at some time.
SpecSettles == Spec /\ WF_vars(ResponseArrives \/ TransportFails)

\* The parser and the request analysis on every command of Commands: the
\* command is in the text field, and Analyze is clicked.
InitParse ==
  /\ curlCommand \in Commands
  /\ loading = FALSE
  /\ error = ""
  /\ analysisData = Null
  /\ pending = <<>>

NextParse == HandleAnalyze

SpecParse == InitParse /\ [][NextParse]_vars

(***************************************************************************)
(* What the claims speak of                                                *)
(***************************************************************************)

\* The words of the command in the text field, as the tokenizer finds them.
Words == Tokenize(Normalize(curlCommand))

\* The flags that take the next word as their value.
ValueFlags == HeaderFlags \cup MethodFlags \cup DataFlags

\* The places from i on that the loop visits as an argument of their own:
\* the word after a value flag is that flag's value, and is not visited.
RECURSIVE OwnPlaces(_, _)
OwnPlaces(parts, i) ==
  IF i > Len(parts) THEN {}
  ELSE IF parts[i] \in ValueFlags THEN {i} \cup OwnPlaces(parts, i + 2)
  ELSE {i} \cup OwnPlaces(parts, i + 1)

\* The places of the words that are no flag and no value of a flag.
UrlPlaces(parts) == {i \in OwnPlaces(parts, 2) : parts[i][1] # "-"}

\* The places of the header, method and data flags that have a value.
FlagPlaces(parts, flags) ==
  {i \in OwnPlaces(parts, 2) : parts[i] \in flags /\ i < Len(parts)}

\* The words of parts without those at the places in drop.
RECURSIVE WithoutFrom(_, _, _)
WithoutFrom(parts, drop, i) ==
  IF i > Len(parts) THEN <<>>
  ELSE (IF i \in drop THEN <<>> ELSE <<parts[i]>>) \o WithoutFrom(parts, drop, i + 1)

Without(parts, drop) == WithoutFrom(parts, drop, 1)

\* The messages parseCurlCommand fails with.
ParseErrors ==
  {"Error parsing curl command: " \o m :
     m \in {"Command must start with 'curl'", "No URL specified in curl command",
            "Invalid URL format"}
           \cup {"Missing value for " \o ToStr(f) : f \in ValueFlags}}

\* Analyze has been clicked on the command in the text field.
Analyzed == loading \/ error # ""

\* parseCurlCommand returned a descriptor, which is now the request in flight.
Returned == pending # Null

Descriptor == pending[1].parsedRequest

RequestInfo == pending[1].requestInfo

\* What the parse of the command in the text field ended with, read off the
\* component: the descriptor in flight, or the error displayed. (It is the
\* parse's outcome unless the request analysis threw after it.)
ParseObserved == Analyzed /\ error # "Invalid URL"

ObservedOutcome == IF Returned THEN Return(Descriptor) ELSE Throw(error)

\* The format the spec requires of a descriptor's url.
WellFormedUrl(u) ==
  /\ u # <<>>
  /\ \/ StartsWith(u, <<"h","t","t","p",":","/","/">>)
     \/ StartsWith(u, <<"h","t","t","p","s",":","/","/">>)
  /\ \A j \in 1..Len(u) : u[j] \notin Whitespace \cup Quotes

(***************************************************************************)
(* The claims                                                              *)
(***************************************************************************)

\* C1: a command whose first word, compared case-insensitively, is not
\* 'curl' fails with a parse error, whatever follows it.
C1_OtherKeywordFails ==
  LET w == Words IN
    (Analyzed /\ w # NoMatch /\ ToLowerCase(w[1]) # CurlKeyword)
      => (~Returned /\ error \in ParseErrors)

\* C2 as stated: the url of the returned descriptor is the first word that is
\* no flag and no flag's value, and the outcome is that of the command
\* without the later such words.
C2_FirstUrlWins ==
  LET w == Words IN
    (ParseObserved /\ UrlPlaces(w) # {}) =>
      LET first == Min(UrlPlaces(w))
          later == UrlPlaces(w) \ {first}
      IN  /\ Returned => Descriptor.url = StripQuotes(w[first])
          /\ ObservedOutcome = ParseCurlCommand(CommandText(Without(w, later)))

\* C2 as amended: the url of the returned descriptor is the last word that is
\* no flag and no flag's value, with its quote characters removed, and the
\* outcome is that of the command without the earlier such words.
C2_LastUrlWins ==
  LET w == Words IN
    (ParseObserved /\ UrlPlaces(w) # {}) =>
      LET last    == Max(UrlPlaces(w))
          earlier == UrlPlaces(w) \ {last}
      IN  /\ Returned => Descriptor.url = StripQuotes(w[last])
          /\ ObservedOutcome = ParseCurlCommand(CommandText(Without(w, earlier)))

\* A descriptor was returned for a command with two different words that are
\* no flags, the first of which is not its url.
C2_Witness ==
  LET w == Words IN
    /\ Returned
    /\ Cardinality(UrlPlaces(w)) >= 2
    /\ StripQuotes(w[Min(UrlPlaces(w))]) # Descriptor.url

\* C3: a data flag makes the method POST when the command has no method flag;
\* when the last method flag says GET and a data flag follows it, the method
\* of the returned descriptor is GET.
C3_ExplicitGetIsKept ==
  LET w == Words IN
    (Returned /\ FlagPlaces(w, DataFlags) # {}) =>
      IF FlagPlaces(w, MethodFlags) = {}
      THEN Descriptor.method = MethodPOST
      ELSE LET last == Max(FlagPlaces(w, MethodFlags))
           IN  (/\ ToUpperCase(w[last + 1]) = MethodGET
                /\ \E d \in FlagPlaces(w, DataFlags) : d > last)
                 => Descriptor.method = MethodGET

\* C4: when the last word is a value flag that the loop visits as a flag, the
\* parse fails for the missing value, whatever precedes it.
C4_TrailingValueFlagFails ==
  LET w == Words IN
    (/\ Analyzed
     /\ Len(w) >= 2
     /\ w[Len(w)] \in ValueFlags
     /\ Len(w) \in OwnPlaces(w, 2))
      => /\ ~Returned
         /\ error = "Error parsing curl command: Missing value for "
                      \o ToStr(w[Len(w)])

\* The parse failed for a missing value after a valid URL.
C4_Witness ==
  LET w == Words IN
    /\ Analyzed
    /\ Len(w) >= 3
    /\ w[Len(w)] \in ValueFlags
    /\ Len(w) \in OwnPlaces(w, 2)
    /\ \E i \in UrlPlaces(w) : WellFormedUrl(StripQuotes(w[i]))
    /\ error \in ParseErrors

\* C5: the url of every returned descriptor is non-empty, starts with http://
\* or https:// and holds no whitespace and no quote; a command none of whose
\* words is such a URL fails with a parse error.
C5_ReturnedUrlIsHttp ==
  LET w == Words IN
    /\ Returned => WellFormedUrl(Descriptor.url)
    /\ (Analyzed /\ \A i \in UrlPlaces(w) : ~WellFormedUrl(StripQuotes(w[i])))
         => (~Returned /\ error \in ParseErrors)

\* A descriptor was returned for a command that also holds a quoted URL with
\* a space in it.
C5_Witness ==
  LET w == Words IN
    /\ Returned
    /\ WellFormedUrl(Descriptor.url)
    /\ \E i \in UrlPlaces(w) : w[i] = TokSpaced

\* The text before the first colon of a header line, and the text after it.
BeforeFirstColon(line) ==
  LET at == {j \in 1..Len(line) : line[j] = ":"}
  IN  IF at = {} THEN line ELSE SubSeq(line, 1, Min(at) - 1)

AfterFirstColon(line) ==
  LET at == {j \in 1..Len(line) : line[j] = ":"}
  IN  IF at = {} THEN <<>> ELSE SubSeq(line, Min(at) + 1, Len(line))

\* The key and the value that the header flag at place i gives.
HeaderKeyAt(parts, i) == Trim(BeforeFirstColon(StripQuotes(parts[i + 1])))

HeaderValueAt(parts, i) == Trim(AfterFirstColon(StripQuotes(parts[i + 1])))

\* C6: a header value is split on its first colon only, both sides trimmed,
\* and of several header flags with one key the last decides the value.
C6_HeaderSplitLastWins ==
  LET w == Words IN
    Returned =>
      LET places == FlagPlaces(w, HeaderFlags)
      IN  /\ DOMAIN Descriptor.headers = {HeaderKeyAt(w, i) : i \in places}
          /\ \A i \in places :
               (\A j \in places : j > i => HeaderKeyAt(w, j) # HeaderKeyAt(w, i))
                 => Descriptor.headers[HeaderKeyAt(w, i)] = HeaderValueAt(w, i)

\* A descriptor was returned for a command with two header flags of one key
\* and different values, the later of which holds a colon and is the one kept.
C6_Witness ==
  LET w == Words IN
    /\ Returned
    /\ \E i, j \in FlagPlaces(w, HeaderFlags) :
         /\ i < j
         /\ HeaderKeyAt(w, i) = HeaderKeyAt(w, j)
         /\ HeaderValueAt(w, i) # HeaderValueAt(w, j)
         /\ \E k \in 1..Len(HeaderValueAt(w, j)) : HeaderValueAt(w, j)[k] = ":"
         /\ Descriptor.headers[HeaderKeyAt(w, j)] = HeaderValueAt(w, j)

\* The places of the flags that are none of the value flags.
UnknownFlagPlaces(parts) ==
  {i \in OwnPlaces(parts, 2) : parts[i][1] = "-" /\ parts[i] \notin ValueFlags}

\* C7: an unknown flag that the loop visits changes nothing, takes no value
\* and causes no failure: the outcome is that of the command without it.
C7_UnknownFlagIsNoOp ==
  LET w == Words IN
    ParseObserved =>
      \A i \in UnknownFlagPlaces(w) :
        ObservedOutcome = ParseCurlCommand(CommandText(Without(w, {i})))

\* A descriptor was returned for a command with an unknown flag before its URL.
C7_Witness ==
  LET w == Words IN
    /\ Returned
    /\ \E i \in UnknownFlagPlaces(w) : \E u \in UrlPlaces(w) : i < u

\* C8: X-API-Key decides the type whenever it is there; otherwise the prefix
\* of Authorization does, and the type is null for another prefix or none.
\* present says that one of the two header names is there.
C8_LastAuthRuleWins ==
  Returned =>
    LET h == Descriptor.headers
        a == RequestInfo.authentication
    IN  /\ a.present = (Authorization \in DOMAIN h \/ XApiKey \in DOMAIN h)
        /\ a.type =
             IF XApiKey \in DOMAIN h THEN Some("API Key")
             ELSE IF Authorization \in DOMAIN h /\ StartsWith(h[Authorization], Bearer)
             THEN Some("Bearer Token")
             ELSE IF Authorization \in DOMAIN h /\ StartsWith(h[Authorization], Basic)
             THEN Some("Basic Auth")
             ELSE Null

\* A request was analyzed that has a Bearer Authorization and an X-API-Key.
C8_Witness ==
  /\ Returned
  /\ Authorization \in DOMAIN Descriptor.headers
  /\ StartsWith(Descriptor.headers[Authorization], Bearer)
  /\ XApiKey \in DOMAIN Descriptor.headers
  /\ RequestInfo.authentication = [present |-> TRUE, type |-> Some("API Key")]

\* C9: the body summary says present=false, with no other field, exactly when
\* the descriptor's body is null; otherwise it has a size and a preview.
C9_NonNullBodyIsPresent ==
  Returned =>
    IF Descriptor.data = Null
    THEN RequestInfo.body = [present |-> FALSE]
    ELSE /\ RequestInfo.body.present
         /\ DOMAIN RequestInfo.body = {"present", "size_bytes", "content_preview"}

\* C10: whatever response the transport delivers, the invocation publishes
\* an analysis that carries the response's status code, and no error.
C10_DeliveredResponseResolves ==
  [][pending # Null =>
       \A response \in Responses(pending[1].parsedRequest) :
         Resume(1, AnalyzeDelivered(pending[1].parsedRequest, response))
           => /\ analysisData' # Null
              /\ analysisData'[1].response.status_code = response.status
              /\ error' = ""]_vars

\* C11: in every analysis analyzeResponse returns, redirect_count is 1 when the
\* final URL differs from the url of the descriptor and 0 when they are the
\* same, and it is never another number, however many redirects were followed.
C11_RedirectCountIsZeroOrOne ==
  [][\A k \in 1..Len(pending) :
       \A response \in Responses(pending[k].parsedRequest) :
         (/\ response.request # Null
          /\ Resume(k, AnalyzeDelivered(pending[k].parsedRequest, response)))
           => LET m == analysisData'[1].response.metadata
              IN  /\ m.final_url = response.request[1].res.responseUrl
                  /\ m.redirect_count \in {0, 1}
                  /\ m.redirect_count = 1
                       <=> m.final_url # pending[k].parsedRequest.url]_vars

\* An analysis is displayed whose final URL is the one that only a second
\* redirect leads to, and its redirect_count is 1.
C11_Witness ==
  /\ analysisData # Null
  /\ analysisData[1].response.metadata.final_url = FarUrl
  /\ analysisData[1].response.metadata.redirect_count = 1

\* C12: one invocation parses, then analyzes the request, then executes it:
\* a request is dispatched only for a command whose parse and request analysis
\* both succeeded, and it is the parsed one. What a step publishes is the
\* whole pair of a request analysis and a response, with no error, or an
\* error alone: a step that leaves an error displayed publishes no analysis.
C12_PairOrErrorOnly ==
  [][/\ Len(pending') > Len(pending) =>
          LET parsedRequest == ParseCurlCommand(curlCommand)
          IN  /\ parsedRequest.ok
              /\ AnalyzeRequest(parsedRequest.value).ok
              /\ pending' = Append(pending,
                   [parsedRequest |-> parsedRequest.value,
                    requestInfo   |-> AnalyzeRequest(parsedRequest.value).value])
     /\ analysisData' # analysisData =>
          /\ analysisData' # Null
          /\ DOMAIN analysisData'[1] = {"request", "response"}
          /\ \E k \in 1..Len(pending) :
               /\ pending' = Settled(k)
               /\ analysisData'[1].request = pending[k].requestInfo
          /\ error' = ""
     /\ error' # "" => analysisData' = analysisData]_vars

\* The execution failed for a command that was parsed and analyzed: the error
\* is displayed, and no analysis.
C12_Witness ==
  /\ ParseCurlCommand(curlCommand).ok
  /\ AnalyzeRequest(ParseCurlCommand(curlCommand).value).ok
  /\ error = "Request failed: Network Error"
  /\ analysisData = Null
  /\ ~loading

\* What the component renders: the spinner in the button, the error Alert
\* ({error && ...}) and the panel of the analysis ({analysisData && ...}).
ShowsSpinner == loading

ShowsError == error # ""

ShowsAnalysis == analysisData # Null

\* The four states of the view, each told by what is rendered.
ViewIdle == ~ShowsSpinner /\ ~ShowsError /\ ~ShowsAnalysis

ViewLoading == ShowsSpinner /\ ~ShowsError

ViewSucceeded == ~ShowsSpinner /\ ~ShowsError /\ ShowsAnalysis

ViewFailed == ~ShowsSpinner /\ ShowsError /\ ~ShowsAnalysis

\* C13: the view is in one of the states idle, loading, succeeded and failed,
\* and an error and an analysis are never displayed together.
C13_ErrorAndResultExclusive ==
  /\ ViewIdle \/ ViewLoading \/ ViewSucceeded \/ ViewFailed
  /\ ~(ShowsError /\ ShowsAnalysis)

\* C14: loading is true exactly while an invocation waits for its network
\* call, so that it is false again after every invocation, however it ended;
\* when the call settles, loading does become false; and the button, disabled
\* while loading, lets at most one invocation be in flight.
C14_LoadingUntilSettled ==
  /\ [](Len(pending) <= 1)
  /\ [](loading <=> pending # <<>>)
  /\ loading ~> ~loading

\* An invocation is in flight for a command in the text field, and only
\* loading keeps the button disabled.
C14_Witness ==
  /\ loading
  /\ Len(pending) = 1
  /\ ~JsNot(curlCommand)

====
